---- MODULE Spec2Model ----
(***************************************************************************)
(* TimeDistributedLayer (tensorlayer/layers/time_distribution.py).         *)
(*                                                                         *)
(* The layer applies an inner layer class to every timestep of a           *)
(* (batch, time, feature) tensor under one variable scope, so that the     *)
(* inner layer's parameters are shared by all timesteps.                   *)
(*                                                                         *)
(* Names (scope names, variable names) are sequences of characters, so     *)
(* that the prefix match of tf.get_collection(scope=...) is modelled as    *)
(* it is computed.  Tensors are records of a static shape and the nested   *)
(* sequence of their elements.                                             *)
(***************************************************************************)
EXTENDS Integers, Sequences, FiniteSets, TLC

\* ------------------------------------------------------------------ bounds
MaxLayers == 3      \* layers constructed in one graph
MaxT == 2           \* longest time axis
MaxB == 2           \* largest batch size
MaxD == 2           \* largest feature size of the input

\* ------------------------------------------------------------------- names
Slash == <<"/">>

DigitChars == <<"0", "1", "2", "3", "4", "5", "6", "7", "8", "9">>

\* str(i) for a timestep index (line 110); indices stay below 10 here.
StrOfIndex(i) == <<DigitChars[i + 1]>>

\* The names a layer may be given: 'time_dense' and 'time_dense_2' of the
\* framework's numbering, shortened to "t" and "t2".
LayerNames == { <<"t">>, <<"t", "2">> }

\* The 'name' entry of layer_args ('dense').
InnerNames == { <<"d">> }

\* The name an inner layer falls back to when it is given none.
DefaultInnerName == <<"d", "f">>

\* The inner layer classes handed in as layer_class: a dense layer with
\* weights and bias, one without bias, and None (the constructor default).
LayerClasses == { "DenseLayer", "DenseNoBias", "None" }

\* The variables an inner layer class asks for, in the order it asks.
ParamsOf(cls) ==
    IF cls = "DenseLayer" THEN << <<"W">>, <<"b">> >>
    ELSE IF cls = "DenseNoBias" THEN << <<"W">> >>
    ELSE << >>

\* The reuse flag of a variable scope: False, True or tf.AUTO_REUSE.
ReuseFlags == { "False", "True", "AUTO" }

\* ----------------------------------------------------------------- tensors
NoTensor == [set |-> FALSE, shape |-> << >>, val |-> << >>]

Tensor(shape, val) == [set |-> TRUE, shape |-> shape, val |-> val]

\* Element (b, t, f) of the input data; every position holds another value,
\* so that a permutation of axes or of timesteps changes the tensor.
Elem(b, t, f) == 100 * b + 10 * t + f

\* The (batch, feature) tensor of timestep t of the input data.
SliceData(B, D, t) ==
    Tensor(<<B, D>>, [b \in 1..B |-> [f \in 1..D |-> Elem(b, t, f)]])

\* The input as one tensor of shape (B, T, D).
TensorData(B, T, D) ==
    Tensor(<<B, T, D>>,
           [b \in 1..B |-> [t \in 1..T |-> [f \in 1..D |-> Elem(b, t, f)]]])

\* The input as a sequence of T tensors of shape (B, D).
ListData(B, T, D) == [t \in 1..T |-> SliceData(B, D, t)]

\* The tensor a previous layer hands over: one tensor, or a sequence of
\* per-timestep tensors.
PrevOutputs(isTensor, B, T, D) ==
    [isTensor |-> isTensor,
     tensor |-> IF isTensor THEN TensorData(B, T, D) ELSE NoTensor,
     list |-> IF isTensor THEN << >> ELSE ListData(B, T, D)]

NoInputs == [isTensor |-> TRUE, tensor |-> NoTensor, list |-> << >>]

\* tf.stack(values) along axis 0 (line 95).  An empty list converts to a
\* tensor of shape (0,).
StackAxis0(values) ==
    IF values = << >> THEN Tensor(<<0>>, << >>)
    ELSE Tensor(<<Len(values)>> \o values[1].shape,
                [k \in 1..Len(values) |-> values[k].val])

\* Faulty variant: the axes are left in the order tf.stack gives them.
NormalizePermIdentity == <<0, 1, 2>>

\* The axis permutation of line 95.

NormalizePerm == <<1, 0, 2>>

\* tf.transpose(t, perm) of a rank-3 tensor: axis k of the result is axis
\* perm[k] of t.
Transpose(t, perm) ==
    LET sh == [k \in 1..3 |-> t.shape[perm[k] + 1]]
        Src(idx) == [a \in 1..3 |-> idx[CHOOSE k \in 1..3 : perm[k] + 1 = a]]
    IN  Tensor(sh,
               [i \in 1..sh[1] |-> [j \in 1..sh[2] |-> [k \in 1..sh[3] |->
                   LET s == Src(<<i, j, k>>) IN t.val[s[1]][s[2]][s[3]]]]])

\* Lines 94-95: a sequence is stacked and transposed to (batch, time,
\* feature); a tensor is kept.  The transposition of a tensor that is not
\* of rank 3 fails.
Normalize(inputs) ==
    IF inputs.isTensor THEN [err |-> FALSE, inputs |-> inputs]
    ELSE LET st == StackAxis0(inputs.list)
         IN  IF Len(st.shape) # 3 THEN [err |-> TRUE, inputs |-> inputs]
             ELSE [err |-> FALSE,
                   inputs |-> [isTensor |-> TRUE,
                               tensor |-> Transpose(st, NormalizePerm),
                               list |-> << >>]]

\* tf.unstack(t, axis=1) (line 101): one (batch, feature) tensor for each
\* timestep.
UnstackAxis1(t) ==
    [k \in 1..t.shape[2] |->
        Tensor(<<t.shape[1], t.shape[3]>>,
               [b \in 1..t.shape[1] |-> t.val[b][k]])]

\* Faulty variant: an empty list is stacked to an empty tensor.
StackAxis1Unchecked(values) ==
    IF values = << >> THEN [err |-> FALSE, t |-> Tensor(<<0, 0, 0>>, << >>)]
    ELSE [err |-> FALSE,
          t |-> Tensor(<<values[1].shape[1], Len(values), values[1].shape[2]>>,
                       [b \in 1..values[1].shape[1] |->
                           [k \in 1..Len(values) |-> values[k].val[b]]])]

\* Faulty variant: the timesteps are stacked along axis 0.
StackAxis1TimeMajor(values) ==
    IF values = << >> THEN [err |-> TRUE, t |-> NoTensor]
    ELSE [err |-> FALSE, t |-> StackAxis0(values)]

\* tf.stack(values, axis=1) (line 117).  It reads values[0], so an empty
\* list fails; so do tensors of different shapes.
StackAxis1(values) ==
    IF values = << >> THEN [err |-> TRUE, t |-> NoTensor]
    ELSE IF \E k \in 1..Len(values) : values[k].shape # values[1].shape
    THEN [err |-> TRUE, t |-> NoTensor]
    ELSE [err |-> FALSE,
          t |-> Tensor(<<values[1].shape[1], Len(values), values[1].shape[2]>>,
                       [b \in 1..values[1].shape[1] |->
                           [k \in 1..Len(values) |-> values[k].val[b]]])]

\* ------------------------------------------------------- the inner layer
\* The weights the shared parameters stand for; the same for every timestep.
Weight(f, u) == f + 2 * u

Bias(cls, u) == IF cls = "DenseLayer" THEN u ELSE 0

\* The weighted sum of the first n features of one row, for output unit u.
RECURSIVE DotTo(_, _, _)
DotTo(row, u, n) ==
    IF n = 0 THEN 0 ELSE row[n] * Weight(n, u) + DotTo(row, u, n - 1)

\* The outputs of the inner layer on one (batch, feature) tensor: a tensor
\* of shape (batch, n_units).
InnerOutputs(xt, cls, n_units) ==
    Tensor(<<xt.shape[1], n_units>>,
           [b \in 1..xt.shape[1] |-> [u \in 1..n_units |->
               DotTo(xt.val[b], u, xt.shape[2]) + Bias(cls, u)]])

\* ---------------------------------------------- scopes and the registry
\* re.match(scope, name) of tf.get_collection: the name starts with scope.
RegexMatch(scope, nm) ==
    /\ Len(scope) <= Len(nm)
    /\ SubSeq(nm, 1, Len(scope)) = scope

\* tf.get_collection(TF_GRAPHKEYS_VARIABLES, scope=vs.name) (line 115).
GetCollection(reg, scope) == { nm \in reg : RegexMatch(scope, nm) }

\* The name of the scope that tf.variable_scope(scope) opens inside the
\* enclosing scope enc (vs.name, line 108).
VsName(enc, scope) == IF enc = << >> THEN scope ELSE enc \o Slash \o scope

\* The reuse mode inside tf.variable_scope(..., reuse=arg): True and
\* AUTO_REUSE are taken, False inherits the enclosing scope's mode.
EnteredReuse(arg, enclosing) == IF arg = "False" THEN enclosing ELSE arg

\* Faulty variant: every timestep takes the enclosing scope's flag.
TimestepScopeNoReuse(i, is_name_reuse, nm) ==
    [reuse |-> is_name_reuse, scope |-> nm]

\* Faulty variant: every later timestep gets a scope of its own.
TimestepScopeUnshared(i, is_name_reuse, nm) ==
    [reuse |-> is_name_reuse,
     scope |-> IF i = 0 THEN nm ELSE nm \o StrOfIndex(i)]

\* Lines 107-108: the reuse argument and the scope of timestep i.
TimestepScope(i, is_name_reuse, nm) ==
    [reuse |-> IF i = 0 THEN is_name_reuse ELSE "True", scope |-> nm]

\* tf.get_variable(nm) in a scope of reuse mode reuse: in mode True the
\* variable must exist, in mode False it must not, AUTO_REUSE makes it if
\* it is missing.
GetVariable(reg, nm, reuse) ==
    IF reuse = "True" THEN [reg |-> reg, err |-> nm \notin reg]
    ELSE IF reuse = "AUTO" THEN [reg |-> reg \cup {nm}, err |-> FALSE]
    ELSE IF nm \in reg THEN [reg |-> reg, err |-> TRUE]
    ELSE [reg |-> reg \cup {nm}, err |-> FALSE]

\* The full name of variable p of the inner layer named inner in scope vs.
VarName(vs, inner, p) == vs \o Slash \o inner \o Slash \o p

\* The inner layer asks for its variables one after the other, from the
\* k-th on; the first failure ends it, and what was made stays.
RECURSIVE GetVariables(_, _, _, _)
GetVariables(reg, names, reuse, k) ==
    IF k > Len(names) THEN [reg |-> reg, err |-> FALSE]
    ELSE LET r == GetVariable(reg, names[k], reuse)
         IN  IF r.err THEN r ELSE GetVariables(r.reg, names, reuse, k + 1)

\* self.layer_args.  present: the instance has the attribute; isNone: its
\* value is None and no mapping; hasName, hasUnits: the keys the mapping
\* has.
\* No instance yet, so no attribute.
AbsentArgs ==
    [present |-> FALSE, isNone |-> FALSE, hasName |-> FALSE, name |-> << >>,
     hasUnits |-> FALSE, n_units |-> 1]

\* layer_args=None (the default of line 64) kept as it was given.
NoneArgs ==
    [present |-> TRUE, isNone |-> TRUE, hasName |-> FALSE, name |-> << >>,
     hasUnits |-> FALSE, n_units |-> 1]

\* layer_args=None turned into the empty mapping {}.
EmptyArgs ==
    [present |-> TRUE, isNone |-> FALSE, hasName |-> FALSE, name |-> << >>,
     hasUnits |-> FALSE, n_units |-> 1]

\* Layer.__init__(layer_args=layer_args) (line 72) always sets the
\* attribute: a mapping is stored as it is, None as None or as {}.
LayerArgsChoices(units) ==
    {NoneArgs, EmptyArgs}
    \cup { [present |-> TRUE, isNone |-> FALSE, hasName |-> FALSE,
            name |-> << >>, hasUnits |-> TRUE, n_units |-> u] : u \in units }
    \cup { [present |-> TRUE, isNone |-> FALSE, hasName |-> TRUE,
            name |-> n, hasUnits |-> TRUE, n_units |-> u] :
             n \in InnerNames, u \in units }

\* The name the inner layer gets from **layer_args (line 112).
InnerNameOf(args) == IF args.hasName THEN args.name ELSE DefaultInnerName

\* Faulty variant: a missing key falls back to a default name.
InLayerNameOrDefault(args, i) ==
    [err |-> FALSE, name |-> InnerNameOf(args) \o StrOfIndex(i)]

\* self.layer_args['name'] + str(i) (line 110): fails on None and on a
\* mapping without the key.
InLayerName(args, i) ==
    [err |-> ~(args.present /\ ~args.isNone /\ args.hasName),
     name |-> args.name \o StrOfIndex(i)]

\* self.layer_class(in_layer, **self.layer_args) (line 112) in scope vs of
\* mode reuse: None is not callable; a layer class makes its variables.
CallLayerClass(reg, cls, args, vs, reuse) ==
    IF cls = "None" THEN [reg |-> reg, err |-> TRUE, called |-> FALSE]
    ELSE LET names == [k \in 1..Len(ParamsOf(cls)) |->
                          VarName(vs, InnerNameOf(args), ParamsOf(cls)[k])]
             r == GetVariables(reg, names, reuse, 1)
         IN  [reg |-> r.reg, err |-> r.err, called |-> TRUE]

\* Faulty variant: the outputs of the inner layer are dropped.
KeepInput(x, i, out) == x

\* x[i] = net.outputs (line 113).
StoreOutputs(x, i, out) == [x EXCEPT ![i + 1] = out]

\* -------------------------------------------------------------- __str__
HasDunderName(cls) == cls # "None"

\* "%s" % self.layer_args
FormatArgs(args) ==
    IF args.isNone THEN <<"None">>
    ELSE <<"{">>
         \o (IF args.hasUnits
             THEN <<"n_units", DigitChars[args.n_units + 1]>> ELSE << >>)
         \o (IF args.hasName THEN <<"name">> \o args.name ELSE << >>)
         \o <<"}">>

\* Layer._str: the class of the layer, its name and the additional entries.
LayerStr(nm, additional_str) ==
    << <<"TimeDistributedLayer">>, nm >> \o additional_str

\* Lines 74-87.  An attribute that is missing leaves its entry out.
Str(cls, args, nm) ==
    [raised |-> FALSE,
     str |-> LayerStr(nm,
                (IF HasDunderName(cls) THEN << <<"layer_class", cls>> >> ELSE << >>)
                \o (IF args.present
                    THEN << <<"layer_args">> \o FormatArgs(args) >> ELSE << >>))]

\* ------------------------------------------------------------------ state
VARIABLES
    built,          \* layers constructed so far
    pc,             \* "idle", "constructed", "loop", "done" or "raised"
    name,           \* self.name
    layer_class,    \* self.layer_class
    layer_args,     \* self.layer_args
    enc,            \* name of the variable scope that encloses the call
    prev,           \* prev_layer.outputs as handed to __call__
    inputs,         \* self.inputs
    timestep,       \* input_shape[1]
    x,              \* the list of per-timestep tensors
    i,              \* the loop index
    is_name_reuse,  \* tf.get_variable_scope().reuse, read at line 103
    registry,       \* the graph's collection of variables (their names)
    local_weights,  \* self._local_weights
    outputs,        \* self.outputs
    all_layers,     \* what _add_layers was given, call by call
    all_params,     \* what _add_params was given, call by call
    reg0,           \* the registry when __call__ began
    steps,          \* what each finished or failed timestep did
    inner_calls,    \* invocations of layer_class by this __call__
    str_out,        \* what the last __str__ did
    str_calls       \* __str__ calls since the instance last changed

instance == <<name, layer_class, layer_args, enc, prev, inputs, timestep, x, i,
              is_name_reuse, local_weights, outputs, all_layers, all_params>>

history == <<reg0, steps, inner_calls>>

vars == <<built, pc, instance, registry, history, str_out, str_calls>>

NoWeights == [set |-> FALSE, val |-> {}]

NoStr == [raised |-> FALSE, str |-> << >>]

Init ==
    /\ built = 0
    /\ pc = "idle"
    /\ name = << >>
    /\ layer_class = "None"
    /\ layer_args = AbsentArgs
    /\ enc = << >>
    /\ prev = NoInputs
    /\ inputs = NoInputs
    /\ timestep = 0
    /\ x = << >>
    /\ i = 0
    /\ is_name_reuse = "False"
    /\ registry = {}
    /\ local_weights = NoWeights
    /\ outputs = NoTensor
    /\ all_layers = << >>
    /\ all_params = << >>
    /\ reg0 = {}
    /\ steps = << >>
    /\ inner_calls = 0
    /\ str_out = NoStr
    /\ str_calls = 0

\* The scopes a call may be made in: the root scope, or a scope 'o'.
EnclosingScopes == { << >>, <<"o">> }

\* __init__ (lines 60-72): a new instance; the graph's registry stays.
\* At most limit layers are built, with n_units drawn from units.
Construct(limit, units) ==
    /\ pc \in {"idle", "done", "raised"}
    /\ built < limit
    /\ built' = built + 1
    /\ pc' = "constructed"
    /\ name' \in LayerNames
    /\ layer_class' \in LayerClasses
    /\ layer_args' \in LayerArgsChoices(units)
    /\ enc' = << >>
    /\ prev' = NoInputs
    /\ inputs' = NoInputs
    /\ timestep' = 0
    /\ x' = << >>
    /\ i' = 0
    /\ is_name_reuse' = "False"
    /\ local_weights' = NoWeights
    /\ outputs' = NoTensor
    /\ all_layers' = << >>
    /\ all_params' = << >>
    /\ reg0' = registry
    /\ steps' = << >>
    /\ inner_calls' = 0
    /\ str_out' = NoStr
    /\ str_calls' = 0
    /\ UNCHANGED registry

\* __str__ (lines 74-87), called on an instance that is not inside __call__.
DoStr ==
    /\ pc \in {"constructed", "done", "raised"}
    /\ str_calls < 2
    /\ str_out' = Str(layer_class, layer_args, name)
    /\ str_calls' = str_calls + 1
    /\ UNCHANGED <<built, pc, instance, registry, history>>

\* Layer.__call__(prev_layer): the inputs are the previous layer's outputs.
LayerCall(prev_outputs) == prev_outputs

\* __call__ up to the loop (lines 90-103), on an input with a batch size
\* of Bs and a feature size of Ds.
Call(Bs, Ds) ==
    /\ pc = "constructed"
    /\ \E isTensor \in BOOLEAN, B \in Bs, T \in 0..MaxT, D \in Ds,
          e \in EnclosingScopes, r \in ReuseFlags :
          LET n == Normalize(LayerCall(PrevOutputs(isTensor, B, T, D)))
          IN  /\ prev' = PrevOutputs(isTensor, B, T, D)
              /\ enc' = e
              /\ inputs' = n.inputs
              /\ IF n.err
                 THEN /\ pc' = "raised"
                      /\ UNCHANGED <<timestep, x, is_name_reuse>>
                 ELSE /\ pc' = "loop"
                      /\ timestep' = n.inputs.tensor.shape[2]
                      /\ x' = UnstackAxis1(n.inputs.tensor)
                      /\ is_name_reuse' = r
    /\ i' = 0
    /\ reg0' = registry
    /\ str_calls' = 0
    /\ UNCHANGED <<built, name, layer_class, layer_args, registry, local_weights,
                   outputs, all_layers, all_params, steps, inner_calls, str_out>>

\* One iteration of the loop (lines 105-115).
Timestep ==
    /\ pc = "loop"
    /\ i < timestep
    /\ LET sc == TimestepScope(i, is_name_reuse, name)
           vs == VsName(enc, sc.scope)
           mode == EnteredReuse(sc.reuse, is_name_reuse)
           nm == InLayerName(layer_args, i)
           net == CallLayerClass(registry, layer_class, layer_args, vs, mode)
           ok == ~nm.err /\ ~net.err
           Step(reg, lw) == [i |-> i, scope |-> vs, reuse |-> sc.reuse,
                             in_name |-> nm.name, ok |-> ok,
                             reg |-> reg, weights |-> lw]
       IN  IF nm.err
           THEN /\ pc' = "raised"
                /\ steps' = Append(steps, Step(registry, local_weights))
                /\ UNCHANGED <<registry, x, local_weights, i, inner_calls>>
           ELSE /\ registry' = net.reg
                /\ inner_calls' = inner_calls + (IF net.called THEN 1 ELSE 0)
                /\ IF net.err
                   THEN /\ pc' = "raised"
                        /\ steps' = Append(steps, Step(net.reg, local_weights))
                        /\ UNCHANGED <<x, local_weights, i>>
                   ELSE /\ pc' = "loop"
                        /\ x' = StoreOutputs(x, i,
                                    InnerOutputs(x[i + 1], layer_class,
                                                 layer_args.n_units))
                        /\ local_weights' =
                               [set |-> TRUE, val |-> GetCollection(net.reg, vs)]
                        /\ steps' = Append(steps, Step(net.reg, local_weights'))
                        /\ i' = i + 1
    /\ UNCHANGED <<built, name, layer_class, layer_args, enc, prev, inputs,
                   timestep, is_name_reuse, outputs, all_layers, all_params,
                   reg0, str_out, str_calls>>

\* Layer._add_layers and Layer._add_params: the output and the parameters
\* are added to the layer's running lists.
AddLayers(layers, out) == Append(layers, out)

AddParams(params, weights) == Append(params, weights)

\* After the loop (lines 117-120): stack, _add_layers, _add_params.  Line
\* 120 reads self._local_weights, which only line 115 sets.
Finish ==
    /\ pc = "loop"
    /\ i = timestep
    /\ LET st == StackAxis1(x)
       IN  IF st.err
           THEN /\ pc' = "raised"
                /\ UNCHANGED <<outputs, all_layers, all_params>>
           ELSE /\ outputs' = st.t
                /\ all_layers' = AddLayers(all_layers, st.t)
                /\ IF local_weights.set
                   THEN /\ all_params' = AddParams(all_params, local_weights.val)
                        /\ pc' = "done"
                   ELSE /\ pc' = "raised"
                        /\ UNCHANGED all_params
    /\ UNCHANGED <<built, name, layer_class, layer_args, enc, prev, inputs,
                   timestep, x, i, is_name_reuse, registry, local_weights,
                   history, str_out, str_calls>>

\* One layer from construction to the end of __call__, on inputs of every
\* shape within the bounds.
ConstructLayer == Construct(1, 1..MaxD)

CallLayer == Call(1..MaxB, 1..MaxD)

Next == ConstructLayer \/ DoStr \/ CallLayer \/ Timestep \/ Finish

Spec == Init /\ [][Next]_vars

\* Several layers built one after the other in the same graph, so that a
\* call finds the variables of the layers before it; all sizes but the
\* time axis are 1.
ConstructInGraph == Construct(MaxLayers, {1})

CallInGraph == Call({1}, {1})

NextGraph == ConstructInGraph \/ CallInGraph \/ Timestep \/ Finish

SpecGraph == Init /\ [][NextGraph]_vars

\* ================================================================ claims
\* The scope of this layer, and the variables that lie in a scope.
LayerScope == VsName(enc, name)

InScope(scope, nm) == RegexMatch(scope \o Slash, nm)

ScopeParams(reg, scope) == { nm \in reg : InScope(scope, nm) }

\* The variables of one instantiation of the inner layer in this layer's
\* scope.
InnerParams ==
    { VarName(LayerScope, InnerNameOf(layer_args), ParamsOf(layer_class)[k]) :
        k \in 1..Len(ParamsOf(layer_class)) }

\* The input slice of timestep t, read from the normalized input.
InputSlice(t) ==
    Tensor(<<inputs.tensor.shape[1], inputs.tensor.shape[3]>>,
           [b \in 1..inputs.tensor.shape[1] |-> inputs.tensor.val[b][t]])

\* C1: when __call__ completes on an input of T >= 1 timesteps, the
\* registry holds what it held before plus the variables of one
\* instantiation of the inner layer, whatever T is: in the layer's scope
\* there is one parameter set, not one per timestep.
C1_SharedParameters ==
    (pc = "done" /\ timestep >= 1) =>
        /\ registry = reg0 \cup InnerParams
        /\ ScopeParams(registry, LayerScope)
             = ScopeParams(reg0, LayerScope) \cup InnerParams

C1_Witness ==
    /\ pc = "done"
    /\ timestep >= 2
    /\ layer_class = "DenseLayer"
    /\ Cardinality(registry \ reg0) = 2

\* C2: the timesteps run in the order 0, 1, ..., every one opens the scope
\* named by the layer, the first with the enclosing scope's reuse flag and
\* every later one with reuse = True; no timestep after the first changes
\* the registry or the set of variables seen in the scope.
C2_LaterTimestepsReuse ==
    /\ pc = "done" => Len(steps) = timestep
    /\ \A k \in 1..Len(steps) :
          /\ steps[k].i = k - 1
          /\ steps[k].scope = LayerScope
          /\ steps[k].reuse = (IF k = 1 THEN is_name_reuse ELSE "True")
          /\ k >= 2 => /\ steps[k].ok
                       /\ steps[k].reg = steps[1].reg
                       /\ steps[k].weights = steps[1].weights

C2_Witness ==
    /\ pc = "done"
    /\ Len(steps) >= 2
    /\ is_name_reuse = "False"
    /\ steps[1].reg # reg0
    /\ steps[2].reg = steps[1].reg

\* C3: on an input of shape (B, T, D) the output has shape (B, T, D'), and
\* its slice t along axis 1 is the inner layer's output for input slice t.
C3_OutputShapeAndOrder ==
    (pc = "done") =>
        /\ outputs.set
        /\ outputs.shape = <<inputs.tensor.shape[1], inputs.tensor.shape[2],
                             layer_args.n_units>>
        /\ \A b \in 1..outputs.shape[1], t \in 1..outputs.shape[2] :
              outputs.val[b][t]
                = InnerOutputs(InputSlice(t), layer_class, layer_args.n_units).val[b]

C3_Witness ==
    /\ pc = "done"
    /\ inputs.tensor.shape = <<2, 2, 2>>
    /\ outputs.shape = <<2, 2, 1>>

\* C4: without a 'name' key in layer_args, __call__ never completes, the
\* inner layer class is never invoked, no variable is made, self.outputs
\* stays unset and nothing is registered.
C4_MissingNameFails ==
    (pc \in {"loop", "done", "raised"} /\ ~layer_args.hasName) =>
        /\ pc # "done"
        /\ inner_calls = 0
        /\ registry = reg0
        /\ ~outputs.set
        /\ all_layers = << >>
        /\ all_params = << >>

C4_Witness ==
    /\ pc = "raised"
    /\ layer_args.hasUnits
    /\ ~layer_args.hasName
    /\ layer_class = "DenseLayer"
    /\ timestep >= 1
    /\ Len(steps) = 1

\* A time axis of length 1 put at index 1 of a (batch, feature) tensor.
ExpandDims1(t2) ==
    Tensor(<<t2.shape[1], 1, t2.shape[2]>>,
           [b \in 1..t2.shape[1] |-> <<t2.val[b]>>])

\* C5: with T = 1, __call__ invokes the inner layer once, leaves the
\* registry as one direct instantiation in the layer's scope leaves it, and
\* its output is that one output with a time axis of length 1 at index 1.
C5_SingleTimestep ==
    (pc = "done" /\ timestep = 1) =>
        /\ inner_calls = 1
        /\ registry = CallLayerClass(reg0, layer_class, layer_args, LayerScope,
                                     is_name_reuse).reg
        /\ outputs = ExpandDims1(InnerOutputs(InputSlice(1), layer_class,
                                              layer_args.n_units))

C5_Witness ==
    /\ pc = "done"
    /\ timestep = 1
    /\ inner_calls = 1
    /\ inputs.tensor.shape = <<2, 1, 2>>
    /\ registry # reg0

\* C6: the parameter list given to _add_params is the parameter set of this
\* layer's inner layer: all of its variables and no variable of another
\* layer.
C6_CapturedAreOwnParams ==
    (pc = "done") => all_params = <<InnerParams>>

\* C8: when __call__ has returned, self.outputs is the restacked output and
\* the output and the captured parameters were registered once each, after
\* the last timestep; before that, and when __call__ has raised, nothing
\* is registered.
C8_AllOrNothing ==
    /\ pc = "done" =>
          /\ i = timestep
          /\ Len(steps) = timestep
          /\ outputs.set
          /\ outputs.shape[2] = timestep
          /\ all_layers = <<outputs>>
          /\ local_weights.set
          /\ all_params = <<local_weights.val>>
    /\ pc \in {"loop", "raised"} =>
          /\ all_layers = << >>
          /\ all_params = << >>

C8_Witness ==
    /\ pc = "raised"
    /\ timestep = 2
    /\ inner_calls = 1
    /\ all_layers = << >>

\* C9: a sequence of T tensors of shape (batch, feature) becomes one tensor
\* of shape (batch, time, feature) whose element [b][t][f] is element [b][f]
\* of the t-th tensor, and the slice unpacked for timestep t is the t-th
\* tensor; a single tensor is left as it is.
C9_Normalization ==
    (pc \in {"loop", "done", "raised"}) =>
        IF prev.isTensor THEN inputs = prev
        ELSE prev.list # << >> =>
               /\ inputs.isTensor
               /\ inputs.tensor.shape = <<prev.list[1].shape[1], Len(prev.list),
                                          prev.list[1].shape[2]>>
               /\ \A b \in 1..inputs.tensor.shape[1], t \in 1..Len(prev.list) :
                     inputs.tensor.val[b][t] = prev.list[t].val[b]
               /\ \A t \in (i + 1)..Len(prev.list) : x[t] = prev.list[t]

C9_Witness ==
    /\ pc = "loop"
    /\ i = 0
    /\ ~prev.isTensor
    /\ Len(prev.list) = 2
    /\ inputs.tensor.shape = <<1, 2, 2>>
    /\ x = prev.list

\* C10: the first timestep's scope takes the enclosing scope's reuse flag
\* and every later one reuse = True; so in an enclosing scope in reuse mode
\* no timestep makes a variable, and the captured parameters are the
\* variables that this layer's scope held before the call.
C10_ReuseCapturesScopeParams ==
    (pc = "done" /\ is_name_reuse = "True") =>
        /\ \A k \in 1..Len(steps) : steps[k].reuse = "True"
        /\ registry = reg0
        /\ local_weights.val = ScopeParams(reg0, LayerScope)
====
